---- MODULE Spec2Model ----
(***************************************************************************)
(* The guided ML workflow of insight-ml-studio: the Index page's state,    *)
(* the handlers that change it, and the child components whose local state *)
(* and asynchronous callbacks (FileReader, training interval) feed it.     *)
(*                                                                         *)
(* A step of the model is one browser task: a user event handled by the    *)
(* handler the current render bound to it, a FileReader event, or a run of *)
(* callbacks of one training interval.  React commits the state updates of *)
(* a task together, so each action ends with the render that follows:      *)
(* components that leave the tree lose their state and run their effect    *)
(* cleanup in the same action.                                             *)
(***************************************************************************)
EXTENDS Bags, FiniteSets, Integers, Sequences, TLC

\* ------------------------------------------------------------------ bounds
MaxReads == 1        \* FileReaders in flight at once
MaxModels == 2       \* models selected at once
TickStride == 50     \* interval callbacks of one timer taken in one step

\* ------------------------------------------------------- values and helpers
Null == "null"

Min(a, b) == IF a < b THEN a ELSE b

Range(s) == {s[i] : i \in 1..Len(s)}

\* a filter that hands the remaining elements back in reverse order
RECURSIVE FilterOutReversed(_, _)
FilterOutReversed(s, column) ==
    IF s = <<>> THEN <<>>
    ELSE IF Head(s) = column THEN FilterOutReversed(Tail(s), column)
    ELSE FilterOutReversed(Tail(s), column) \o <<Head(s)>>

\* Array.prototype.filter(f => f # column): the remaining elements in order
RECURSIVE FilterOut(_, _)
FilterOut(s, column) ==
    IF s = <<>> THEN <<>>
    ELSE IF Head(s) = column THEN FilterOut(Tail(s), column)
    ELSE <<Head(s)>> \o FilterOut(Tail(s), column)

WorkflowStep == {"upload", "select", "train", "evaluate", "predict"}

\* The kinds of the ModelType catalog in play: one that is offered for
\* classification only and trains in 50 iterations, one that is offered for
\* both tasks and trains in 100.
ModelType == {"logistic_regression", "random_forest"}

\* parameter values are kept as the literals of the catalog
defaultModelParams(model) ==
    CASE model = "linear_regression" -> <<>>
      [] model = "logistic_regression" -> <<>>
      [] model = "decision_tree" ->
            [max_depth |-> "5", min_samples_split |-> "2"]
      [] model = "random_forest" ->
            [n_estimators |-> "100", max_depth |-> "5", min_samples_split |-> "2"]
      [] model = "xgboost" ->
            [n_estimators |-> "100", learning_rate |-> "0.1", max_depth |-> "5"]

\* ------------------------------------------------------------ the datasets
\* A cell is a number, a string, or undefined (no such key in the row).
Num(n) == [t |-> "number", n |-> n, s |-> ""]
Str(s) == [t |-> "string", n |-> 0, s |-> s]
Undefined == [t |-> "undefined", n |-> 0, s |-> ""]

Headers == {"id", "x", "y"}

\* parsed content of the two CSV files the user can load
DatasetNames == {"reg", "cls"}

Rows(d) ==
    CASE d = "reg" ->
            [i \in 1..12 |-> [id |-> Num(i - 1), x |-> Num(10 * i),
                              y |-> Str(IF i % 2 = 0 THEN "a" ELSE "b")]]
      [] d = "cls" ->
            [i \in 1..2 |-> [id |-> Num(i - 1), x |-> Num(i % 2),
                             y |-> Str(IF i = 1 THEN "yes" ELSE "no")]]
      [] OTHER -> <<>>

\* row[targetName]
Cell(row, column) == IF column \in DOMAIN row THEN row[column] ELSE Undefined

\* determineTaskType that takes a target for numeric at nine rows in ten
determineTaskTypeAtNineTenths(targetName, rows) ==
    LET uniqueValues == {Cell(rows[i], targetName) : i \in 1..Len(rows)}
        numericCount ==
            Cardinality({i \in 1..Len(rows) : Cell(rows[i], targetName).t = "number"})
        size == Cardinality(uniqueValues)
    IN  IF Len(rows) = 0 \/ targetName = "" THEN Null
        ELSE IF size <= 10 \/ 20 * size < Len(rows) THEN "classification"
        ELSE IF 10 * numericCount >= 9 * Len(rows) THEN "regression"
        ELSE "classification"

\* determineTaskType that counts the distinct numbers, not the distinct values
determineTaskTypeDistinctNumbers(targetName, rows) ==
    LET uniqueValues == {Cell(rows[i], targetName) : i \in 1..Len(rows)}
        numericCount ==
            Cardinality({i \in 1..Len(rows) : Cell(rows[i], targetName).t = "number"})
        size == Cardinality({v \in uniqueValues : v.t = "number"})
    IN  IF Len(rows) = 0 \/ targetName = "" THEN Null
        ELSE IF size <= 10 \/ 20 * size < Len(rows) THEN "classification"
        ELSE IF 10 * numericCount > 9 * Len(rows) THEN "regression"
        ELSE "classification"

\* determineTaskType(targetName, data) on the rows of a dataset.  The two
\* ratios are compared as the integer inequalities they amount to: a quotient
\* of two row counts is below 0.05 (above 0.9) as a double exactly when it is
\* as a fraction.
determineTaskTypeRows(targetName, rows) ==
    LET uniqueValues == {Cell(rows[i], targetName) : i \in 1..Len(rows)}
        numericCount ==
            Cardinality({i \in 1..Len(rows) : Cell(rows[i], targetName).t = "number"})
        size == Cardinality(uniqueValues)
    IN  IF Len(rows) = 0 \/ targetName = "" THEN Null
        \* uniqueValues.size / data.length < 0.05
        ELSE IF size <= 10 \/ 20 * size < Len(rows) THEN "classification"
        \* numericCount / data.length > 0.9
        ELSE IF 10 * numericCount > 9 * Len(rows) THEN "regression"
        ELSE "classification"

\* determineTaskType(targetName, data) with the dataset held by name
determineTaskType(targetName, d) ==
    IF d = Null THEN Null ELSE determineTaskTypeRows(targetName, Rows(d))

\* ------------------------------------------- target columns by their counts
MaxRows == 240       \* rows of the largest column the task type is inferred for

\* row counts, distinct-value counts and numeric-row counts around the
\* thresholds of determineTaskType
RowCounts == {1, 10, 11, 12, 20, 100, 221, MaxRows}

DistinctCounts == {1, 2, 10, 11, 12, 95}

NumericCounts(n) == {0, (9 * n) \div 10, (9 * n) \div 10 + 1, n - 2, n} \cap 0..n

\* the least and the greatest number of distinct numbers that a column of n
\* rows, m of them numbers, with u distinct values can have
Splits(n, u, m) ==
    LET least == IF u - (n - m) > (IF m > 0 THEN 1 ELSE 0)
                 THEN u - (n - m) ELSE (IF m > 0 THEN 1 ELSE 0)
        most == Min(m, u - (IF n > m THEN 1 ELSE 0))
    IN  IF least <= most THEN {least, most} ELSE {}

\* A column of n rows, m of them numbers, with u distinct values of which
\* numbers are the distinct numbers: [n, u, m, numbers].
ColumnInputs ==
    UNION {UNION {{[n |-> n, u |-> u, m |-> m, numbers |-> k] : k \in Splits(n, u, m)} :
                      m \in NumericCounts(n)} :
              n \in RowCounts, u \in DistinctCounts}

\* the rows of such a column, under the header y: the numbers first
ColumnRows(c) ==
    [i \in 1..c.n |->
        [y |-> IF i <= c.m THEN Num(Min(i, c.numbers))
               ELSE Str(ToString(Min(i - c.m, c.u - c.numbers)))]]

\* the same rows, last row first
Reversed(rows) == [i \in 1..Len(rows) |-> rows[Len(rows) + 1 - i]]

\* ------------------------------------------------------------------ parseCSV
MaxLines == 2        \* data lines of a text
MaxCells == 2        \* cells of a line, and columns of the header line

\* the trimmed cells a line can have, and the header names
CellTexts == {"7", "a", ""}
HeaderTexts == {"id", "x"}

\* Number(value), NaN for a text that is no number; Number("") is 0
Number(value) ==
    CASE value = "7" -> Num(7)
      [] value = "" -> Num(0)
      [] OTHER -> [t |-> "number", n |-> 0, s |-> "NaN"]

\* isNaN(numValue) ? value : numValue
Convert(value) == IF Number(value).s = "NaN" THEN Str(value) ELSE Number(value)

\* the lines of a text: csvString.trim().split('\n'), each split at the commas
\* and trimmed.  The trim of the text leaves no empty last line.
LinesOf(n, texts) == UNION {[1..len -> texts] : len \in 1..n}

ParseInputs ==
    {[header |-> h, lines |-> ls] :
        h \in LinesOf(MaxCells, HeaderTexts),
        ls \in {ls \in UNION {[1..k -> LinesOf(MaxCells, CellTexts)] : k \in 0..MaxLines} :
                  Len(ls) > 0 => ls[Len(ls)] # <<"">>}}

\* parseCSV: a row starts as { id: idx } and then takes, header by header,
\* the cell under it; a later header of the same name wins, a header
\* without a cell is skipped
parseCSV(header, lines) ==
    [k \in 1..Len(lines) |->
        LET cells == 1..Min(Len(header), Len(lines[k]))
        IN  [key \in {"id"} \cup {header[i] : i \in cells} |->
                IF \E i \in cells : header[i] = key
                THEN LET i == CHOOSE i \in cells :
                                /\ header[i] = key
                                /\ \A j \in cells : header[j] = key => j <= i
                     IN  Convert(lines[k][i])
                ELSE Num(k - 1)]]

\* ---------------------------------------------------------------- the files
MaxSizeBytes == 10485760

ValidExtensions == {"csv", "CSV", "xlsx", "xls"}

Files ==
    { [name |-> "reg.csv",   ext |-> "csv",  size |-> 2048,             content |-> "reg"],
      [name |-> "CLS.CSV",   ext |-> "CSV",  size |-> MaxSizeBytes,     content |-> "cls"],
      [name |-> "book.xlsx", ext |-> "xlsx", size |-> 2048,             content |-> "binary"],
      [name |-> "empty.csv", ext |-> "csv",  size |-> 0,                content |-> ""],
      [name |-> "notes.txt", ext |-> "txt",  size |-> 2048,             content |-> "cls"],
      [name |-> "big.csv",   ext |-> "csv",  size |-> MaxSizeBytes + 1, content |-> "reg"] }

\* -------------------------------------------------------------------- state
VARIABLES
    currentStep,       \* Index: WorkflowStep
    data,              \* Index: Null or the name of the parsed dataset
    selectedFeatures,  \* Index: sequence of column names
    selectedTarget,    \* Index: "" or a column name
    taskType,          \* Index: Null, "classification" or "regression"
    selectedModels,    \* Index: sequence of model kinds
    modelResults,      \* Index: kind -> modelInfo, for the kinds trained
    trainedModel,      \* Index: null, or kind -> [type, params]
    multiModelParams,  \* Index: kind -> parameter mapping
    modelMetrics,      \* Index: metrics of the single-model flow
    fileUpload,        \* FileUpload: [fileName, isLoading] of the mounted instance
    reads,             \* bag of FileReaders in flight
    cards,             \* ModelTraining: kind -> state of that kind's card
    testData,          \* PredictData: null, or the rows of the test file
    predictedResults,  \* PredictData: null, or the rows with their predictions
    isPredicting,      \* PredictData: a prediction run is pending
    inferInput,        \* the column determineTaskType is applied to
    inferOutput,       \* what it returned
    parseInput,        \* the text parseCSV is applied to
    parseOutput,       \* what it returned
    lastOp             \* history: the handler that ran last, its argument and
                       \* the branch it took

indexVars == <<currentStep, data, selectedFeatures, selectedTarget, taskType,
               selectedModels, modelResults, trainedModel, multiModelParams,
               modelMetrics>>

vars == <<currentStep, data, selectedFeatures, selectedTarget, taskType,
          selectedModels, modelResults, trainedModel, multiModelParams,
          modelMetrics, fileUpload, reads, cards, testData, predictedResults,
          isPredicting, inferInput, inferOutput, parseInput, parseOutput, lastOp>>

\* PredictData's state, and the application of determineTaskType to a column
predictVars == <<testData, predictedResults, isPredicting>>
inferVars == <<inferInput, inferOutput>>
parseVars == <<parseInput, parseOutput>>

Op(name, arg, branch) == [name |-> name, arg |-> arg, branch |-> branch]

EmptyMap == <<>>

\* useState initial values of FileUpload and of ModelTraining
FileUploadInit == [fileName |-> Null, isLoading |-> FALSE]

NoClosure == [nResults |-> 0, nSelected |-> 0, taskType |-> Null]

CardInit == [isTraining |-> FALSE, progress |-> 0, timer |-> FALSE,
             currentIteration |-> 0, closure |-> NoClosure]

\* useState<any[] | null>(null) of PredictData
NoRows == [isNull |-> TRUE, rows |-> <<>>]

\* nothing is predicted and nothing inferred outside the workflow
Idle ==
    /\ testData = NoRows /\ predictedResults = NoRows /\ isPredicting = FALSE
    /\ inferInput = Null /\ inferOutput = Null
    /\ parseInput = Null /\ parseOutput = Null

Init ==
    /\ Idle
    /\ currentStep = "upload"
    /\ data = Null
    /\ selectedFeatures = <<>>
    /\ selectedTarget = ""
    /\ taskType = Null
    /\ selectedModels = <<>>
    /\ modelResults = EmptyMap
    /\ trainedModel = [isNull |-> TRUE, value |-> EmptyMap]
    /\ multiModelParams = EmptyMap
    /\ modelMetrics = Null
    /\ fileUpload = FileUploadInit
    /\ reads = EmptyBag
    /\ cards = [k \in ModelType |-> CardInit]
    /\ lastOp = Op("init", "", "")

\* ------------------------------------------------------------ what is mounted
\* Index renders FileUpload on the upload step while there is no dataset
FileUploadMounted(step, d) == step = "upload" /\ d = Null

\* Index renders one ModelTraining card per selected model on the train step
MountedCards(step, tt, models) ==
    IF step = "train" /\ tt # Null THEN Range(models) ELSE {}

\* FileReaders outlive the FileUpload instance that started them; the state
\* setters they call then belong to an instance that is gone
Detach(rd) ==
    LET dead == {[file |-> r.file, live |-> FALSE] : r \in BagToSet(rd)}
    IN  [r \in dead |-> CopiesIn(r, rd) + CopiesIn([r EXCEPT !.live = TRUE], rd)]

\* ModelTraining's effect cleanup with the loop over the timer ids left out
KeepIntervals(cd) == cd

\* ModelTraining's effect cleanup: creates an interval, then clears every
\* timer id from 0 up to it, so the timers of all cards are gone
ClearAllIntervals(cd) ==
    [k \in DOMAIN cd |->
        [cd[k] EXCEPT !.timer = FALSE, !.currentIteration = 0, !.closure = NoClosure]]

\* The commit after a handler: fu, rd, cd are the component states the
\* handler left.  A component that left the tree loses its useState values;
\* a timer it started lives in the window and goes only when cleared.
Render(fu, rd, cd) ==
    LET wasUp == FileUploadMounted(currentStep, data)
        isUp == FileUploadMounted(currentStep', data')
        wasCards == MountedCards(currentStep, taskType, selectedModels)
        isCards == MountedCards(currentStep', taskType', selectedModels')
        kept == IF wasCards \ isCards # {} THEN ClearAllIntervals(cd) ELSE cd
    IN  /\ fileUpload' = IF wasUp /\ isUp THEN fu ELSE FileUploadInit
        /\ reads' = IF wasUp /\ ~isUp THEN Detach(rd) ELSE rd
        /\ cards' = [k \in ModelType |->
                        IF k \in isCards THEN kept[k]
                        ELSE [kept[k] EXCEPT !.isTraining = FALSE, !.progress = 0]]

\* the named properties of a value stored as results.metrics: an array has
\* its length and none of the fields of its elements
Properties(metrics) == IF metrics.array THEN {"length"} ELSE metrics.of

\* the fields of results.metrics whose toFixed the comparison cards of the
\* evaluate view call
EvaluateReads(tt) ==
    IF tt = "classification" THEN {"accuracy", "f1Score"} ELSE {"r2Score", "mae"}

\* the evaluate view is rendered and reads a field that is not there: the
\* render throws a TypeError
RenderThrows ==
    /\ currentStep = "evaluate" /\ ~trainedModel.isNull /\ taskType # Null
    /\ \E k \in DOMAIN modelResults :
          EvaluateReads(taskType) \ Properties(modelResults[k].metrics) # {}

\* An error thrown while rendering takes the Index page out of the tree: no
\* handler of it runs afterwards.
IndexMounted == ~RenderThrows

\* ---------------------------------------------------------------- navigation
\* navigateToStep with the train guard checking the features alone
navigateToStepNoTarget(step) ==
    IF \/ step = "upload"
       \/ (step = "select" /\ data # Null)
       \/ (step = "train" /\ Len(selectedFeatures) > 0)
       \/ (step = "evaluate" /\ ~trainedModel.isNull)
       \/ (step = "predict" /\ ~trainedModel.isNull)
    THEN step
    ELSE currentStep

\* the step that navigateToStep(step) leaves in currentStep
navigateToStep(step) ==
    IF \/ step = "upload"
       \/ (step = "select" /\ data # Null)
       \/ (step = "train" /\ Len(selectedFeatures) > 0 /\ selectedTarget # "")
       \/ (step = "evaluate" /\ ~trainedModel.isNull)
       \/ (step = "predict" /\ ~trainedModel.isNull)
    THEN step
    ELSE currentStep

\* steps[i].completed
steps(id) ==
    CASE id = "upload" -> data # Null
      [] id = "select" -> Len(selectedFeatures) > 0 /\ selectedTarget # ""
      [] id = "train" -> ~trainedModel.isNull
      [] id = "evaluate" -> modelMetrics # Null
      [] id = "predict" -> FALSE

Navigate(step) ==
    /\ IndexMounted
    /\ UNCHANGED <<predictVars, inferVars, parseVars>>
    /\ currentStep' = navigateToStep(step)
    /\ UNCHANGED <<data, selectedFeatures, selectedTarget, taskType, selectedModels,
                   modelResults, trainedModel, multiModelParams, modelMetrics>>
    /\ lastOp' = Op("navigateToStep", step,
                   IF navigateToStep(step) # step THEN "rejected"
                   ELSE IF /\ currentStep = "train" /\ step # "train"
                           /\ \E k \in ModelType : cards[k].timer
                        THEN "leftRunning"
                   ELSE "entered")
    /\ Render(fileUpload, reads, cards)

\* Stepper button: onClick={() => step.completed && onStepClick?.(step.id)}
StepperClick(step) ==
    /\ steps(step)
    /\ Navigate(step)

\* "Next: Select Features" on the upload step
NextSelect ==
    /\ currentStep = "upload" /\ data # Null
    /\ Navigate("select")

\* "Next: Train Model" on the select step
NextTrain ==
    /\ currentStep = "select" /\ data # Null
    /\ ~(Len(selectedFeatures) = 0 \/ selectedTarget = "")
    /\ Navigate("train")

\* "Next: Make Predictions" on the evaluate step: a button of a view that
\* has to render before it can be pressed
NextPredict ==
    /\ currentStep = "evaluate" /\ ~trainedModel.isNull /\ taskType # Null
    /\ Navigate("predict")

\* --------------------------------------------------------------- file intake
\* "Upload a different file": onClick={() => setData(null)}
UploadDifferentFile ==
    /\ IndexMounted
    /\ UNCHANGED <<predictVars, inferVars, parseVars>>
    /\ currentStep = "upload" /\ data # Null
    /\ data' = Null
    /\ UNCHANGED <<currentStep, selectedFeatures, selectedTarget, taskType,
                   selectedModels, modelResults, trainedModel, multiModelParams,
                   modelMetrics>>
    /\ lastOp' = Op("setData", Null, "")
    /\ Render(fileUpload, reads, cards)

\* processFile that turns away a file of exactly the maximum size
processFileAtLimit(file) ==
    IF file.ext \notin ValidExtensions THEN "format"
    ELSE IF file.size >= MaxSizeBytes THEN "size"
    ELSE "read"

\* what processFile(file) does: "format" and "size" are the two rejections
processFile(file) ==
    IF file.ext \notin ValidExtensions THEN "format"
    ELSE IF file.size > MaxSizeBytes THEN "size"
    ELSE "read"

\* a file dropped on the card, or chosen in the (enabled) file input
ProcessFile(file) ==
    /\ IndexMounted
    /\ UNCHANGED <<predictVars, inferVars, parseVars>>
    /\ FileUploadMounted(currentStep, data)
    /\ UNCHANGED indexVars
    /\ lastOp' = Op("processFile", file.name, processFile(file))
    /\ IF processFile(file) = "read"
       THEN /\ BagCardinality(reads) < MaxReads
            /\ Render([fileName |-> file.name, isLoading |-> TRUE],
                      reads (+) SetToBag({[file |-> file, live |-> TRUE]}),
                      cards)
       ELSE Render(fileUpload, reads, cards)

\* "Choose another file": setFileName(null)
ChooseAnotherFile ==
    /\ IndexMounted
    /\ UNCHANGED <<predictVars, inferVars, parseVars>>
    /\ FileUploadMounted(currentStep, data)
    /\ fileUpload.fileName # Null
    /\ UNCHANGED indexVars
    /\ lastOp' = Op("setFileName", Null, "")
    /\ Render([fileUpload EXCEPT !.fileName = Null], reads, cards)

\* reader.readAsText for .csv, reader.readAsArrayBuffer otherwise
ReadsAsText(file) == file.ext \in {"csv", "CSV"}

\* e.target.result is truthy: an ArrayBuffer always, a string unless empty
ResultTruthy(file) == ~ReadsAsText(file) \/ file.content # ""

\* handleFileUploaded(file, content): the dataset parsed from the text is
\* held by name, Rows(data) are its rows
handleFileUploaded(file) ==
    IF ReadsAsText(file)
    THEN [data |-> file.content, selectedFeatures |-> <<>>,
          selectedTarget |-> "", taskType |-> Null]
    ELSE [data |-> data, selectedFeatures |-> selectedFeatures,
          selectedTarget |-> selectedTarget, taskType |-> taskType]

\* reader.onload of a read in flight
ReaderOnload(r) ==
    /\ IndexMounted
    /\ UNCHANGED <<predictVars, inferVars, parseVars>>
    /\ r \in BagToSet(reads)
    /\ LET after == IF ResultTruthy(r.file) THEN handleFileUploaded(r.file)
                    ELSE [data |-> data, selectedFeatures |-> selectedFeatures,
                          selectedTarget |-> selectedTarget, taskType |-> taskType]
       IN  /\ data' = after.data
           /\ selectedFeatures' = after.selectedFeatures
           /\ selectedTarget' = after.selectedTarget
           /\ taskType' = after.taskType
    /\ UNCHANGED <<currentStep, selectedModels, modelResults, trainedModel,
                   multiModelParams, modelMetrics>>
    /\ lastOp' = IF ResultTruthy(r.file)
                 THEN Op("handleFileUploaded", r.file.name,
                         IF ReadsAsText(r.file) THEN "text" ELSE "binary")
                 ELSE Op("onload", r.file.name, "")
    /\ Render(IF ResultTruthy(r.file) /\ r.live
              THEN [fileUpload EXCEPT !.isLoading = FALSE] ELSE fileUpload,
              reads (-) SetToBag({r}), cards)

\* reader.onerror of a read in flight
ReaderOnerror(r) ==
    /\ IndexMounted
    /\ UNCHANGED <<predictVars, inferVars, parseVars>>
    /\ r \in BagToSet(reads)
    /\ UNCHANGED indexVars
    /\ lastOp' = Op("onerror", r.file.name, "")
    /\ Render(IF r.live THEN FileUploadInit ELSE fileUpload,
              reads (-) SetToBag({r}), cards)

\* ------------------------------------------------- feature / target selection
\* the select step renders the DataTable with its column buttons
SelectView == currentStep = "select" /\ data # Null /\ Len(Rows(data)) > 0

\* const headers = Object.keys(data[0])
headers == DOMAIN Rows(data)[1]

\* handleFeatureClick without the check against the target
handleFeatureClickNoReject(column) ==
    IF column \in Range(selectedFeatures) THEN FilterOut(selectedFeatures, column)
    ELSE Append(selectedFeatures, column)

\* the feature list that handleFeatureClick(column) leaves
handleFeatureClick(column) ==
    IF column = selectedTarget THEN selectedFeatures
    ELSE IF column \in Range(selectedFeatures) THEN FilterOut(selectedFeatures, column)
    ELSE Append(selectedFeatures, column)

\* Index.handleTargetSelected(target): the task type it leaves
handleTargetSelected(target) ==
    IF target # "" /\ data # Null THEN determineTaskType(target, data) ELSE taskType

\* handleTargetClick without the removal of the new target from the features
handleTargetClickKeepFeature(column) ==
    LET newTarget == IF column = selectedTarget THEN "" ELSE column
    IN  [selectedFeatures |-> selectedFeatures,
         selectedTarget |-> newTarget,
         taskType |-> handleTargetSelected(newTarget)]

\* handleTargetClick that selects the column whether or not it is the target
handleTargetClickNoToggle(column) ==
    [selectedFeatures |->
        IF column \in Range(selectedFeatures)
        THEN FilterOut(selectedFeatures, column) ELSE selectedFeatures,
     selectedTarget |-> column,
     taskType |-> handleTargetSelected(column)]

\* the selection that handleTargetClick(column) leaves
handleTargetClick(column) ==
    LET newTarget == IF column = selectedTarget THEN "" ELSE column
    IN  [selectedFeatures |->
            IF column # selectedTarget /\ column \in Range(selectedFeatures)
            THEN FilterOut(selectedFeatures, column) ELSE selectedFeatures,
         selectedTarget |-> newTarget,
         taskType |-> handleTargetSelected(newTarget)]

\* the feature button of a column: disabled={header === selectedTarget}
FeatureClick(column) ==
    /\ IndexMounted
    /\ UNCHANGED <<predictVars, inferVars, parseVars>>
    /\ SelectView
    /\ column \in headers
    /\ column # selectedTarget
    /\ selectedFeatures' = handleFeatureClick(column)
    /\ UNCHANGED <<currentStep, data, selectedTarget, taskType, selectedModels,
                   modelResults, trainedModel, multiModelParams, modelMetrics>>
    /\ lastOp' = Op("handleFeatureClick", column,
                   IF column = selectedTarget THEN "rejected"
                   ELSE IF column \in Range(selectedFeatures) THEN "removed"
                   ELSE "added")
    /\ Render(fileUpload, reads, cards)

\* a target button that moves on to the train step once the selection is complete
TargetClickAutoAdvance(column) ==
    /\ IndexMounted
    /\ UNCHANGED <<predictVars, inferVars, parseVars>>
    /\ SelectView
    /\ column \in headers
    /\ LET after == handleTargetClick(column)
       IN  /\ selectedFeatures' = after.selectedFeatures
           /\ selectedTarget' = after.selectedTarget
           /\ taskType' = after.taskType
           /\ currentStep' = IF Len(after.selectedFeatures) > 0 /\ after.selectedTarget # ""
                             THEN "train" ELSE currentStep
    /\ UNCHANGED <<data, selectedModels, modelResults, trainedModel,
                   multiModelParams, modelMetrics>>
    /\ lastOp' = Op("handleTargetClick", column,
                   IF column = selectedTarget THEN "deselect"
                   ELSE IF column \in Range(selectedFeatures) THEN "moved"
                   ELSE "set")
    /\ Render(fileUpload, reads, cards)

\* the target button of a column
TargetClick(column) ==
    /\ IndexMounted
    /\ UNCHANGED <<predictVars, inferVars, parseVars>>
    /\ SelectView
    /\ column \in headers
    /\ LET after == handleTargetClick(column)
       IN  /\ selectedFeatures' = after.selectedFeatures
           /\ selectedTarget' = after.selectedTarget
           /\ taskType' = after.taskType
    /\ UNCHANGED <<currentStep, data, selectedModels, modelResults, trainedModel,
                   multiModelParams, modelMetrics>>
    /\ lastOp' = Op("handleTargetClick", column,
                   IF column = selectedTarget THEN "deselect"
                   ELSE IF column \in Range(selectedFeatures) THEN "moved"
                   ELSE "set")
    /\ Render(fileUpload, reads, cards)

\* ------------------------------------------------------------ model selection
TrainView == currentStep = "train" /\ taskType # Null

availableModels(tt) ==
    IF tt = "classification"
    THEN {"logistic_regression", "decision_tree", "random_forest", "xgboost"}
    ELSE {"linear_regression", "decision_tree", "random_forest", "xgboost"}

\* MultiModelSelection.handleModelToggle: the list passed to onModelsSelect
handleModelToggle(modelType) ==
    IF modelType \in Range(selectedModels) THEN FilterOut(selectedModels, modelType)
    ELSE Append(selectedModels, modelType)

\* handleModelsSelect that adds the defaults to the mapping it had
handleModelsSelectKeepParams(models) ==
    [m \in Range(models) \cup DOMAIN multiModelParams |-> defaultModelParams(m)]

\* Index.handleModelsSelect(models): the parameter mapping it leaves
handleModelsSelect(models) ==
    [m \in Range(models) |-> defaultModelParams(m)]

\* a checkbox of the model list
ModelToggle(modelType) ==
    /\ IndexMounted
    /\ UNCHANGED <<predictVars, inferVars, parseVars>>
    /\ TrainView
    /\ modelType \in availableModels(taskType) \cap ModelType
    /\ Len(handleModelToggle(modelType)) <= MaxModels
    /\ selectedModels' = handleModelToggle(modelType)
    /\ multiModelParams' = handleModelsSelect(handleModelToggle(modelType))
    /\ UNCHANGED <<currentStep, data, selectedFeatures, selectedTarget, taskType,
                   modelResults, trainedModel, modelMetrics>>
    /\ lastOp' = Op("handleModelsSelect", modelType,
                   IF modelType \in Range(selectedModels) THEN "removed" ELSE "added")
    /\ Render(fileUpload, reads, cards)

\* ------------------------------------------------------------------- training
\* an iteration count that is the same for every kind
iterationsAllHundred(modelType) == 100

iterations(modelType) ==
    IF modelType = "xgboost" \/ modelType = "random_forest" THEN 100 ELSE 50

\* Math.min(100, Math.round((currentIteration / iterations) * 100))
newProgress(currentIteration, its) ==
    Min(100, (200 * currentIteration + its) \div (2 * its))

\* a Start Training button that is never disabled
handleStartTrainingAnyTime(modelType) ==
    /\ IndexMounted
    /\ UNCHANGED <<predictVars, inferVars, parseVars>>
    /\ modelType \in MountedCards(currentStep, taskType, selectedModels)
    /\ UNCHANGED indexVars
    /\ lastOp' = Op("handleStartTraining", modelType, "")
    /\ Render(fileUpload, reads,
              [cards EXCEPT ![modelType] =
                  [isTraining |-> TRUE, progress |-> 0, timer |-> TRUE,
                   currentIteration |-> 0,
                   closure |-> [nResults |-> Cardinality(DOMAIN modelResults),
                                nSelected |-> Len(selectedModels),
                                taskType |-> taskType]]])

\* "Start Training" of a card: disabled={isTraining}.  The interval callback
\* keeps the taskType prop and the onTrainingComplete of this render, and
\* with it the modelResults and selectedModels.length that
\* handleTrainingCompleteMulti was built from.
handleStartTraining(modelType) ==
    /\ IndexMounted
    /\ UNCHANGED <<predictVars, inferVars, parseVars>>
    /\ modelType \in MountedCards(currentStep, taskType, selectedModels)
    /\ ~cards[modelType].isTraining
    /\ UNCHANGED indexVars
    /\ lastOp' = Op("handleStartTraining", modelType, "")
    /\ Render(fileUpload, reads,
              [cards EXCEPT ![modelType] =
                  [isTraining |-> TRUE, progress |-> 0, timer |-> TRUE,
                   currentIteration |-> 0,
                   closure |-> [nResults |-> Cardinality(DOMAIN modelResults),
                                nSelected |-> Len(selectedModels),
                                taskType |-> taskType]]])

\* handleTrainingCompleteMulti that spreads the modelResults of its render:
\* a callback whose render saw an empty aggregator leaves its own entry alone
handleTrainingCompleteMultiStale(modelInfo, modelType, closure) ==
    LET completedModels == closure.nResults + 1
        prev == IF closure.nResults = 0 THEN {} ELSE DOMAIN modelResults
    IN  [modelResults |->
            [k \in prev \cup {modelType} |->
                IF k = modelType THEN modelInfo ELSE modelResults[k]],
         trainedModel |->
            [isNull |-> FALSE,
             value |-> [k \in DOMAIN trainedModel.value \cup {modelType} |->
                          IF k = modelType THEN [type |-> modelType]
                          ELSE trainedModel.value[k]]],
         currentStep |->
            IF completedModels = closure.nSelected THEN "evaluate" ELSE currentStep]

\* handleTrainingCompleteMulti with the spread after the new entry, so that an
\* entry the aggregator already has wins
handleTrainingCompleteMultiKeepFirst(modelInfo, modelType, closure) ==
    LET completedModels == closure.nResults + 1
    IN  [modelResults |->
            [k \in DOMAIN modelResults \cup {modelType} |->
                IF k \in DOMAIN modelResults THEN modelResults[k] ELSE modelInfo],
         trainedModel |->
            [isNull |-> FALSE,
             value |-> [k \in DOMAIN trainedModel.value \cup {modelType} |->
                          IF k = modelType THEN [type |-> modelType]
                          ELSE trainedModel.value[k]]],
         currentStep |->
            IF completedModels = closure.nSelected THEN "evaluate" ELSE currentStep]

\* what handleTrainingCompleteMulti(modelInfo, modelType) of a render leaves:
\* the two maps are updated from their current values, the count is the one
\* the render saw
handleTrainingCompleteMulti(modelInfo, modelType, closure) ==
    LET completedModels == closure.nResults + 1
    IN  [modelResults |->
            [k \in DOMAIN modelResults \cup {modelType} |->
                IF k = modelType THEN modelInfo ELSE modelResults[k]],
         trainedModel |->
            [isNull |-> FALSE,
             value |-> [k \in DOMAIN trainedModel.value \cup {modelType} |->
                          IF k = modelType THEN [type |-> modelType]
                          ELSE trainedModel.value[k]]],
         currentStep |->
            IF completedModels = closure.nSelected THEN "evaluate" ELSE currentStep]

\* generateTrainingData(iterations, taskType): an array of one point per
\* iteration; of are the fields of each point
generateTrainingData(its, tt) ==
    [array |-> TRUE, length |-> its,
     of |-> {"iteration", "loss", IF tt = "classification" THEN "accuracy" ELSE "r2"}]

\* the payload of onTrainingComplete; the random numbers in it are left out
ModelInfo(modelType, closure) ==
    [metrics |-> generateTrainingData(iterations(modelType), closure.taskType),
     confusionMatrix |-> IF closure.taskType = "classification" THEN "matrix" ELSE "empty",
     featureImportance |-> "perFeature",
     trainTime |-> "seconds"]

\* n consecutive callbacks of a card's interval; the one that reaches the
\* iteration count stops the timer and reports the completion
Tick(modelType, n) ==
    /\ IndexMounted
    /\ UNCHANGED <<predictVars, inferVars, parseVars>>
    /\ cards[modelType].timer
    /\ LET card == cards[modelType]
           its == iterations(modelType)
           iter == Min(card.currentIteration + n, its)
           ticked == [card EXCEPT !.currentIteration = iter,
                                  !.progress = newProgress(iter, its)]
       IN  IF iter >= its
           THEN LET after == handleTrainingCompleteMulti(
                                 ModelInfo(modelType, card.closure), modelType,
                                 card.closure)
                IN  /\ modelResults' = after.modelResults
                    /\ trainedModel' = after.trainedModel
                    /\ currentStep' = after.currentStep
                    /\ UNCHANGED <<data, selectedFeatures, selectedTarget, taskType,
                                   selectedModels, multiModelParams, modelMetrics>>
                    /\ lastOp' = Op("handleTrainingCompleteMulti", modelType,
                                     IF card.closure.nResults + 1 = card.closure.nSelected
                                     THEN "advance" ELSE "stay")
                    /\ Render(fileUpload, reads,
                              [cards EXCEPT ![modelType] =
                                  [ticked EXCEPT !.timer = FALSE, !.isTraining = FALSE,
                                                 !.currentIteration = 0,
                                                 !.closure = NoClosure]])
           ELSE /\ UNCHANGED indexVars
                /\ lastOp' = Op("tick", modelType, "")
                /\ Render(fileUpload, reads, [cards EXCEPT ![modelType] = ticked])

\* ---------------------------------------------------------------- prediction
MaxTestRows == 2     \* rows of a test file

classLabels == <<"Class A", "Class B", "Class C">>

\* Math.random() in the prediction of one row: the index of the class label
\* drawn, and, minus Centre, the whole part of the noise (Math.random() - 0.5) * 5
Draws == 1..3
Centre == 2

\* a number that is NaN
NaN == [t |-> "number", n |-> 0, s |-> "NaN"]

\* the header rows of the test files, and the values of their cells
TestHeaders == {{"id", "x"}, {"id", "x", "prediction"}}

TestValues(header) ==
    CASE header = "x" -> {Num(4), Str("a")}
      [] header = "prediction" -> {Num(7), Str("Class A")}

\* PredictData.handleFileUploaded's rows: id is the index, then every header
TestRows(hs, idx) ==
    {row \in [hs -> {Num(idx)} \cup UNION {TestValues(h) : h \in hs \ {"id"}}] :
        /\ row["id"] = Num(idx)
        /\ \A h \in hs \ {"id"} : row[h] \in TestValues(h)}

TestDatasets ==
    UNION {{rows \in UNION {[1..n -> UNION {TestRows(hs, i) : i \in 0..MaxTestRows}] :
                               n \in 0..MaxTestRows} :
               \A i \in 1..Len(rows) : rows[i] \in TestRows(hs, i - 1)} :
           hs \in TestHeaders}

\* the sum of the numbers of a row under the given keys
RECURSIVE SumNumbers(_, _)
SumNumbers(row, keys) ==
    IF keys = {} THEN 0
    ELSE LET key == CHOOSE k \in keys : TRUE
         IN  (IF row[key].t = "number" THEN row[key].n ELSE 0)
             + SumNumbers(row, keys \ {key})

\* Math.max(0, baseValue / featureNames.length + noise), whole parts only;
\* without a feature the quotient is 0 / 0
regressionPrediction(row, featureNames, draw) ==
    LET baseValue == SumNumbers(row, DOMAIN row \cap Range(featureNames))
        value == baseValue \div Len(featureNames) + (draw - Centre)
    IN  IF Len(featureNames) = 0 THEN NaN
        ELSE Num(IF value < 0 THEN 0 ELSE value)

\* predictionRow of the map in handlePredict: { ...row } and then prediction
predictionRow(row, tt, featureNames, draw) ==
    [f \in DOMAIN row \cup {"prediction"} |->
        IF f # "prediction" THEN row[f]
        ELSE IF tt = "regression" THEN regressionPrediction(row, featureNames, draw)
        ELSE Str(classLabels[draw])]

\* "Run Prediction": shown while there are no results, disabled={isPredicting}
handlePredict ==
    /\ ~testData.isNull /\ predictedResults.isNull /\ ~isPredicting
    /\ isPredicting' = TRUE
    /\ UNCHANGED <<testData, predictedResults>>
    /\ UNCHANGED <<indexVars, fileUpload, reads, cards, inferVars, parseVars, lastOp>>

\* the callback of handlePredict's setTimeout
PredictTimeout(draws) ==
    /\ isPredicting
    /\ predictedResults' =
          [isNull |-> FALSE,
           rows |-> [i \in 1..Len(testData.rows) |->
                       predictionRow(testData.rows[i], taskType, selectedFeatures,
                                     draws[i])]]
    /\ isPredicting' = FALSE
    /\ UNCHANGED testData
    /\ UNCHANGED <<indexVars, fileUpload, reads, cards, inferVars, parseVars, lastOp>>

\* ---------------------------------------------------------------------- Next
\* NextPredict is not among the steps: every result the aggregator holds makes
\* the evaluate view throw, so its button is never there to press.
Next ==
    \/ \E step \in WorkflowStep : StepperClick(step)
    \/ NextSelect
    \/ NextTrain
    \/ UploadDifferentFile
    \/ \E file \in Files : ProcessFile(file)
    \/ ChooseAnotherFile
    \/ \E r \in BagToSet(reads) : ReaderOnload(r)
    \/ \E r \in BagToSet(reads) : ReaderOnerror(r)
    \/ \E column \in Headers : FeatureClick(column)
    \/ \E column \in Headers : TargetClick(column)
    \/ \E modelType \in ModelType : ModelToggle(modelType)
    \/ \E modelType \in ModelType : handleStartTraining(modelType)
    \/ \E modelType \in ModelType : Tick(modelType, TickStride)

Spec == Init /\ [][Next]_vars

\* ------------------------------------- determineTaskType on columns by count
InitInfer ==
    /\ currentStep = "upload" /\ data = Null
    /\ selectedFeatures = <<>> /\ selectedTarget = "" /\ taskType = Null
    /\ selectedModels = <<>> /\ modelResults = EmptyMap
    /\ trainedModel = [isNull |-> TRUE, value |-> EmptyMap]
    /\ multiModelParams = EmptyMap /\ modelMetrics = Null
    /\ fileUpload = FileUploadInit /\ reads = EmptyBag
    /\ cards = [k \in ModelType |-> CardInit]
    /\ lastOp = Op("init", "", "")
    /\ testData = NoRows /\ predictedResults = NoRows /\ isPredicting = FALSE
    /\ inferInput \in ColumnInputs
    /\ inferOutput = "pending"
    /\ parseInput = Null /\ parseOutput = Null

Infer ==
    /\ inferOutput = "pending"
    /\ inferOutput' = determineTaskTypeRows("y", ColumnRows(inferInput))
    /\ UNCHANGED <<indexVars, fileUpload, reads, cards, predictVars, inferInput,
                   parseVars, lastOp>>

NextInfer == Infer

SpecInfer == InitInfer /\ [][NextInfer]_vars

\* ------------------------------------------------------- parseCSV on texts
InitParse ==
    /\ currentStep = "upload" /\ data = Null
    /\ selectedFeatures = <<>> /\ selectedTarget = "" /\ taskType = Null
    /\ selectedModels = <<>> /\ modelResults = EmptyMap
    /\ trainedModel = [isNull |-> TRUE, value |-> EmptyMap]
    /\ multiModelParams = EmptyMap /\ modelMetrics = Null
    /\ fileUpload = FileUploadInit /\ reads = EmptyBag
    /\ cards = [k \in ModelType |-> CardInit]
    /\ lastOp = Op("init", "", "")
    /\ testData = NoRows /\ predictedResults = NoRows /\ isPredicting = FALSE
    /\ inferInput = Null /\ inferOutput = Null
    /\ parseInput \in ParseInputs
    /\ parseOutput = [done |-> FALSE, rows |-> <<>>]

Parse ==
    /\ ~parseOutput.done
    /\ parseOutput' = [done |-> TRUE,
                       rows |-> parseCSV(parseInput.header, parseInput.lines)]
    /\ UNCHANGED <<indexVars, fileUpload, reads, cards, predictVars, inferVars,
                   parseInput, lastOp>>

NextParse == Parse

SpecParse == InitParse /\ [][NextParse]_vars

\* --------------------------------------- two cards on the train step, tick by tick
\* reg.csv with the feature x and the target y, both kinds selected
InitTicks ==
    /\ Idle
    /\ currentStep = "train" /\ data = "reg"
    /\ selectedFeatures = <<"x">> /\ selectedTarget = "y"
    /\ taskType = determineTaskType("y", "reg")
    /\ selectedModels = <<"logistic_regression", "random_forest">>
    /\ modelResults = EmptyMap
    /\ trainedModel = [isNull |-> TRUE, value |-> EmptyMap]
    /\ multiModelParams = handleModelsSelect(<<"logistic_regression", "random_forest">>)
    /\ modelMetrics = Null
    /\ fileUpload = FileUploadInit /\ reads = EmptyBag
    /\ cards = [k \in ModelType |-> CardInit]
    /\ lastOp = Op("handleModelsSelect", "random_forest", "added")

NextTicks ==
    \/ \E modelType \in ModelType : handleStartTraining(modelType)
    \/ \E modelType \in ModelType : Tick(modelType, 1)

SpecTicks == InitTicks /\ [][NextTicks]_vars

\* ------------------------------------------ PredictData with a test file loaded
\* The props are those of a classification or regression task with or
\* without a feature; the test data is any of the test files.
InitPredict ==
    /\ currentStep = "predict" /\ data = Null
    /\ selectedFeatures \in {<<>>, <<"x">>} /\ selectedTarget = ""
    /\ taskType \in {"classification", "regression"}
    /\ selectedModels = <<>> /\ modelResults = EmptyMap
    /\ trainedModel = [isNull |-> TRUE, value |-> EmptyMap]
    /\ multiModelParams = EmptyMap /\ modelMetrics = Null
    /\ fileUpload = FileUploadInit /\ reads = EmptyBag
    /\ cards = [k \in ModelType |-> CardInit]
    /\ lastOp = Op("init", "", "")
    /\ testData \in {[isNull |-> FALSE, rows |-> rows] : rows \in TestDatasets}
    /\ predictedResults = NoRows /\ isPredicting = FALSE
    /\ inferInput = Null /\ inferOutput = Null
    /\ parseInput = Null /\ parseOutput = Null

NextPredictData ==
    \/ handlePredict
    \/ \E draws \in [1..MaxTestRows -> Draws] : PredictTimeout(draws)

SpecPredict == InitPredict /\ [][NextPredictData]_vars

\* ======================================================================
\* Claims
\* ======================================================================
FileNamed(name) == CHOOSE f \in Files : f.name = name

\* the guard of the workflow's step table
canEnter(step) ==
    CASE step = "upload" -> TRUE
      [] step = "select" -> data # Null
      [] step = "train" -> Len(selectedFeatures) >= 1 /\ selectedTarget # ""
      [] step = "evaluate" -> DOMAIN modelResults # {}
      [] step = "predict" -> DOMAIN modelResults # {}

\* C1: navigateToStep(step) sets the current step to step exactly when the
\* guard of the step table holds (upload always; select iff a dataset is
\* loaded; train iff a feature and a target are selected; evaluate and predict
\* iff a training result is recorded); otherwise the call changes nothing.
\* The first conjunct is the call on every step in every reachable state, the
\* second the calls the stepper and the Next buttons make.
C1_RequestStepGuard ==
    /\ [](\A step \in WorkflowStep :
            navigateToStep(step) = IF canEnter(step) THEN step ELSE currentStep)
    /\ [][lastOp'.name = "navigateToStep" =>
            /\ currentStep' = IF canEnter(lastOp'.arg) THEN lastOp'.arg ELSE currentStep
            /\ UNCHANGED <<data, selectedFeatures, selectedTarget, taskType,
                           selectedModels, modelResults, trainedModel,
                           multiModelParams, modelMetrics>>]_vars

\* a stepper click on a completed step that navigateToStep rejected
C1_Witness ==
    /\ lastOp.name = "navigateToStep"
    /\ lastOp.branch = "rejected"
    /\ currentStep # lastOp.arg

\* C2: in every reachable state the prerequisites of the current step exist.
C2_StepPrerequisites ==
    /\ currentStep = "select" => data # Null
    /\ currentStep = "train" => Len(selectedFeatures) >= 1 /\ selectedTarget # ""
    /\ currentStep \in {"evaluate", "predict"} => DOMAIN modelResults # {}

\* C3: after handleFileUploaded with text content the dataset is the new one,
\* the selection and the task type are cleared, and no training result and no
\* trained-model record of the previous dataset remains.
C3_LoadClearsDownstream ==
    (lastOp.name = "handleFileUploaded" /\ lastOp.branch = "text") =>
        /\ data = FileNamed(lastOp.arg).content
        /\ selectedFeatures = <<>>
        /\ selectedTarget = ""
        /\ taskType = Null
        /\ modelResults = EmptyMap
        /\ trainedModel.isNull
        /\ ~canEnter("evaluate") /\ ~canEnter("predict")

\* C4: in every reachable state the target, if set, is not among the features.
C4_TargetNotFeature ==
    selectedTarget # "" => selectedTarget \notin Range(selectedFeatures)

\* a column that was a feature has just been made the target, other features remain
C4_Witness ==
    /\ lastOp.name = "handleTargetClick"
    /\ lastOp.branch = "moved"
    /\ selectedTarget = lastOp.arg
    /\ selectedFeatures # <<>>

\* C5: making a column c of the feature list F the target, when the target
\* was another column or none, leaves target = c and the features F without
\* c, the others in their previous order.
C5_TargetLeavesFeatures ==
    [][\A c \in Headers :
         (/\ lastOp'.name = "handleTargetClick" /\ lastOp'.arg = c
          /\ c \in Range(selectedFeatures)
          /\ selectedTarget # c)
         => /\ selectedTarget' = c
            /\ selectedFeatures' = SelectSeq(selectedFeatures, LAMBDA f : f # c)]_vars

\* the target has just been taken out of a list of three features
C5_Witness ==
    /\ lastOp.name = "handleTargetClick"
    /\ lastOp.branch = "moved"
    /\ selectedTarget = lastOp.arg
    /\ Len(selectedFeatures) = Cardinality(Headers) - 1

\* C6: handleFeatureClick(name) flips the membership of name in the features
\* when name is not the target, and leaves features, target, task type and
\* dataset as they are when name is the target.  The first conjunct is the
\* handler on every column of the select view, the second the clicks made.
C6_ToggleFeature ==
    /\ [](SelectView =>
            \A c \in headers :
                Range(handleFeatureClick(c)) =
                    IF c = selectedTarget THEN Range(selectedFeatures)
                    ELSE IF c \in Range(selectedFeatures)
                         THEN Range(selectedFeatures) \ {c}
                         ELSE Range(selectedFeatures) \cup {c})
    /\ [](SelectView /\ selectedTarget # "" =>
            handleFeatureClick(selectedTarget) = selectedFeatures)
    /\ [][lastOp'.name = "handleFeatureClick" =>
            /\ selectedFeatures' = handleFeatureClick(lastOp'.arg)
            /\ UNCHANGED <<selectedTarget, taskType, data>>]_vars

\* a feature has just been removed by a click while a target is selected
C6_Witness ==
    /\ lastOp.name = "handleFeatureClick"
    /\ lastOp.branch = "removed"
    /\ lastOp.arg \notin Range(selectedFeatures)
    /\ selectedTarget # ""

\* C7: the target button of a column c that is not the target sets the target
\* to c, and pressed again right after it leaves no target.
C7_TargetToggleTwice ==
    [][\A c \in Headers :
         (lastOp'.name = "handleTargetClick" /\ lastOp'.arg = c)
         => /\ selectedTarget # c => selectedTarget' = c
            /\ (/\ lastOp.name = "handleTargetClick" /\ lastOp.arg = c
                /\ lastOp.branch # "deselect")
               => selectedTarget' = ""]_vars

\* the second of two presses has just cleared the target
C7_Witness ==
    /\ lastOp.name = "handleTargetClick"
    /\ lastOp.branch = "deselect"
    /\ selectedTarget = ""

\* C8: after every target click and after every change of the dataset (load
\* or discard) the stored task type is the one inferred from the current
\* target and dataset, so it is unknown without a target or without a dataset.
C8_TaskTypeDerived ==
    (\/ lastOp.name = "handleTargetClick"
     \/ (lastOp.name = "handleFileUploaded" /\ lastOp.branch = "text")
     \/ lastOp.name = "setData")
    => /\ taskType = determineTaskType(selectedTarget, data)
       /\ (selectedTarget = "" \/ data = Null) => taskType = Null

\* C9: on the train step, once every one of the N selected models has had its
\* completion recorded and the aggregator holds exactly N entries, the step is
\* evaluate; while some selected model has none, a completion leaves it train.
C9_AdvanceAfterAllComplete ==
    lastOp.name = "handleTrainingCompleteMulti" =>
        /\ (/\ Range(selectedModels) \subseteq DOMAIN modelResults
            /\ Cardinality(DOMAIN modelResults) = Len(selectedModels))
           => currentStep = "evaluate"

\* C10: a completion moves the workflow to evaluate only when every selected
\* model has a result in the aggregator.
C10_AdvanceOnlyWhenAllComplete ==
    (lastOp.name = "handleTrainingCompleteMulti" /\ lastOp.branch = "advance") =>
        Range(selectedModels) \subseteq DOMAIN modelResults

\* C11: after every completion call, if the aggregator holds as many results
\* as there are selected models, the step is evaluate; this includes the
\* repeated training of a kind that already had a result.
C11_AdvanceWhenCountsEqual ==
    (/\ lastOp.name = "handleTrainingCompleteMulti"
     /\ Cardinality(DOMAIN modelResults) = Len(selectedModels))
    => currentStep = "evaluate"

\* C12: a completion for a kind that has a result leaves the aggregator with
\* the same kinds, the payload of this call under that kind, and the other
\* kinds' results as they were.  The aggregator is a mapping keyed by kind, so
\* it holds one entry per kind at most.
C12_OverwriteResult ==
    [][\A k \in ModelType :
         (/\ lastOp'.name = "handleTrainingCompleteMulti" /\ lastOp'.arg = k
          /\ k \in DOMAIN modelResults)
         => /\ DOMAIN modelResults' = DOMAIN modelResults
            /\ Cardinality(DOMAIN modelResults') = Cardinality(DOMAIN modelResults)
            /\ modelResults'[k] = ModelInfo(k, cards[k].closure)
            /\ \A j \in DOMAIN modelResults \ {k} : modelResults'[j] = modelResults[j]]_vars

\* The only selected kind has just completed without an advance: its callback
\* counted a result that was there at the click, and the kind is the only one
\* the aggregator has ever held, so the result was its own.  What is stored
\* now is a regression run of a kind that is offered for classification only.
C12_Witness ==
    /\ lastOp = Op("handleTrainingCompleteMulti", "logistic_regression", "stay")
    /\ selectedModels = <<"logistic_regression">>
    /\ DOMAIN modelResults = {"logistic_regression"}
    /\ "r2" \in modelResults["logistic_regression"].metrics.of

\* C13: when the callback of the completing run saw an empty aggregator (its
\* Start Training was clicked before any run completed) and its completion is
\* the last of N >= 2 selected models, the step becomes evaluate, whatever
\* the order in which the runs ticked and completed.
C13_ConcurrentRunsAdvance ==
    [][\A k \in ModelType :
         (/\ lastOp'.name = "handleTrainingCompleteMulti" /\ lastOp'.arg = k
          /\ cards[k].closure.nResults = 0
          /\ Len(selectedModels') >= 2
          /\ Range(selectedModels') \subseteq DOMAIN modelResults'
          /\ Cardinality(DOMAIN modelResults') = Len(selectedModels'))
         => currentStep' = "evaluate"]_vars

\* the lists of kinds a selection can be
ModelLists ==
    {models \in UNION {[1..n -> ModelType] : n \in 0..MaxModels} :
        \A i, j \in 1..Len(models) : models[i] = models[j] => i = j}

\* C14: after a change of the model selection to kinds, the selected models
\* are kinds and the parameter mapping has exactly the kinds as keys, each
\* with the defaults of the catalog; kinds that are no longer selected have no
\* parameters left.  The first conjunct is the handler on every list of kinds,
\* the second the selections made with the checkboxes.
C14_SelectModels ==
    /\ [](\A models \in ModelLists :
            /\ DOMAIN handleModelsSelect(models) = Range(models)
            /\ \A k \in Range(models) :
                 handleModelsSelect(models)[k] = defaultModelParams(k))
    /\ [][lastOp'.name = "handleModelsSelect" =>
            LET kinds == IF lastOp'.arg \in Range(selectedModels)
                         THEN SelectSeq(selectedModels, LAMBDA m : m # lastOp'.arg)
                         ELSE Append(selectedModels, lastOp'.arg)
            IN  /\ selectedModels' = kinds
                /\ DOMAIN multiModelParams' = Range(kinds)
                /\ \A k \in Range(kinds) : multiModelParams'[k] = defaultModelParams(k)
                /\ \A k \in DOMAIN multiModelParams \ Range(kinds) :
                     k \notin DOMAIN multiModelParams']_vars

\* a kind has just been deselected while another stays selected
C14_Witness ==
    /\ lastOp.name = "handleModelsSelect"
    /\ lastOp.branch = "removed"
    /\ selectedModels # <<>>
    /\ lastOp.arg \notin DOMAIN multiModelParams
    /\ DOMAIN multiModelParams = Range(selectedModels)

\* C17: every recorded result has, in its metrics, the fields the evaluate
\* view reads for the task type (accuracy and F1 score, or R2 score and MAE),
\* and has feature importances and sample predictions, so the evaluate view
\* never fails to render.
C17_ResultCarriesFinalMetrics ==
    /\ \A k \in DOMAIN modelResults :
         /\ taskType # Null =>
              EvaluateReads(taskType) \subseteq Properties(modelResults[k].metrics)
         /\ {"featureImportance", "predictions"} \subseteq DOMAIN modelResults[k]
    /\ ~RenderThrows

\* C18: the current step changes only in navigateToStep and in the completion
\* handler; loading a dataset, discarding it, and selecting features, target
\* or models leave it as it is.
C18_StepChangedOnlyByNavigation ==
    [][/\ currentStep' # currentStep =>
            lastOp'.name \in {"navigateToStep", "handleTrainingCompleteMulti"}
       /\ lastOp'.name \in {"handleFileUploaded", "setData", "handleFeatureClick",
                            "handleTargetClick", "handleModelsSelect"}
            => currentStep' = currentStep]_vars

\* a dataset has just been loaded while the workflow is on the train step
C18_Witness ==
    /\ lastOp.name = "handleFileUploaded"
    /\ lastOp.branch = "text"
    /\ currentStep = "train"

\* C20 as stated: a navigation away from the train step leaves every running
\* training timer running.
C20_TimersSurviveNavigation ==
    [][(/\ lastOp'.name = "navigateToStep"
        /\ currentStep = "train" /\ currentStep' # "train")
       => \A k \in ModelType : cards[k].timer => cards'[k].timer]_vars

\* C20 amended: a navigation away from the train step clears every training
\* timer; no timer runs while the workflow is on another step, and no
\* completion is delivered from a step other than train.
C20_NavigationCancelsTimers ==
    /\ [](currentStep # "train" => \A k \in ModelType : ~cards[k].timer)
    /\ [][/\ (/\ lastOp'.name = "navigateToStep"
              /\ currentStep = "train" /\ currentStep' # "train")
             => \A k \in ModelType : ~cards'[k].timer /\ ~cards'[k].isTraining
          /\ lastOp'.name \in {"tick", "handleTrainingCompleteMulti"}
             => currentStep = "train"]_vars

\* the stepper has just left the train step while a run was in flight, and
\* the run's kind has no result
C20_Witness ==
    /\ lastOp.name = "navigateToStep"
    /\ lastOp.branch = "leftRunning"
    /\ currentStep # "train"
    /\ \E k \in Range(selectedModels) : k \notin DOMAIN modelResults

\* C15: for a column of n >= 1 rows with u distinct values and m numeric rows
\* the task type is classification if u <= 10 or 20 * u < n, otherwise
\* regression if 10 * m > 9 * n, otherwise classification.
C15_InferTaskType ==
    (inferOutput # "pending" /\ inferInput.n >= 1) =>
        inferOutput =
            IF inferInput.u <= 10 \/ 20 * inferInput.u < inferInput.n
            THEN "classification"
            ELSE IF 10 * inferInput.m > 9 * inferInput.n THEN "regression"
            ELSE "classification"

\* 100 rows, 95 distinct values, 98 numeric rows: regression
C15_Witness ==
    /\ inferInput.n = 100 /\ inferInput.u = 95 /\ inferInput.m = 98
    /\ inferOutput = "regression"

\* C16: the task type of a column depends on its row count, its count of
\* distinct values and its count of numeric rows only: the same column with
\* its rows in another order, and every column that splits the same counts
\* otherwise between numbers and strings, has the same task type.
C16_InferDependsOnCounts ==
    inferOutput # "pending" =>
        /\ determineTaskTypeRows("y", Reversed(ColumnRows(inferInput))) = inferOutput
        /\ \A k \in Splits(inferInput.n, inferInput.u, inferInput.m) :
             determineTaskTypeRows("y", ColumnRows([inferInput EXCEPT !.numbers = k]))
                 = inferOutput

\* a column of numbers and strings whose distinct values can be split in two
\* ways has been found a regression target
C16_Witness ==
    /\ inferOutput = "regression"
    /\ inferInput.m < inferInput.n
    /\ \E k \in Splits(inferInput.n, inferInput.u, inferInput.m) :
         k # inferInput.numbers

\* C19: the prediction run returns one row for each test row, in the order of
\* the test rows, each with every field of its test row unchanged and with a
\* prediction that is a number for regression and one of the class labels for
\* classification.
C19_PredictionRows ==
    ~predictedResults.isNull =>
        /\ Len(predictedResults.rows) = Len(testData.rows)
        /\ \A i \in 1..Len(testData.rows) :
             LET row == testData.rows[i]
                 result == predictedResults.rows[i]
             IN  /\ \A f \in DOMAIN row : result[f] = row[f]
                 /\ "prediction" \in DOMAIN result
                 /\ taskType = "regression" => result["prediction"].t = "number"
                 /\ taskType = "classification" =>
                      /\ result["prediction"].t = "string"
                      /\ result["prediction"].s \in Range(classLabels)

\* C21: a card has one training timer at most: a timer runs only on a mounted
\* card whose Start Training button is disabled, and every Start Training
\* that is pressed finds its card without a timer and leaves it with one.
C21_OneTimerPerCard ==
    /\ [](\A k \in ModelType :
            cards[k].timer =>
                /\ cards[k].isTraining
                /\ k \in MountedCards(currentStep, taskType, selectedModels))
    /\ [][lastOp'.name = "handleStartTraining" =>
            /\ ~cards[lastOp'.arg].timer
            /\ cards'[lastOp'.arg].timer]_vars

\* a run has just been started while the run of the other card is in flight
C21_Witness ==
    /\ lastOp.name = "handleStartTraining"
    /\ \A k \in ModelType : cards[k].timer
    /\ \E k \in ModelType : k # lastOp.arg /\ cards[k].currentIteration > 0

\* the files that file intake has to turn away
RejectedFiles == {"notes.txt", "big.csv"}

\* C22: a file with an extension other than csv, xlsx, xls or with a size
\* above the limit is turned away before any read: no read is started, the
\* upload callback never runs for it, and the file name, the loading flag, the
\* dataset, the selections and the step stay as they are; a file of exactly
\* the maximum size is read.
C22_RejectBeforeRead ==
    /\ [](\A file \in Files :
            (processFile(file) # "read") <=> (file.name \in RejectedFiles))
    /\ [](lastOp.name = "handleFileUploaded" => lastOp.arg \notin RejectedFiles)
    /\ [](\A r \in BagToSet(reads) : r.file.name \notin RejectedFiles)
    /\ [][lastOp'.name = "processFile" =>
            IF lastOp'.arg \in RejectedFiles
            THEN UNCHANGED <<fileUpload, reads, currentStep, data, selectedFeatures,
                             selectedTarget, taskType, selectedModels, modelResults>>
            ELSE /\ BagCardinality(reads') = BagCardinality(reads) + 1
                 /\ fileUpload'.isLoading /\ fileUpload'.fileName = lastOp'.arg]_vars

\* an oversized file has just been turned away while another file is being read
C22_Witness ==
    /\ lastOp = Op("processFile", "big.csv", "size")
    /\ fileUpload.isLoading
    /\ fileUpload.fileName # "big.csv"
    /\ BagCardinality(reads) = 1

\* a file of exactly the maximum size has just been accepted
C22_WitnessAtLimit ==
    /\ lastOp = Op("processFile", "CLS.CSV", "read")
    /\ FileNamed("CLS.CSV").size = MaxSizeBytes
    /\ fileUpload.fileName = "CLS.CSV"

\* C24: in every reachable state every kind with a result in the aggregator
\* is a selected model.
C24_NoOrphanResults ==
    DOMAIN modelResults \subseteq Range(selectedModels)

\* C25: in every reachable state every selected model is offered for the
\* current task type.
C25_SelectedModelsApplicable ==
    taskType # Null => Range(selectedModels) \subseteq availableModels(taskType)

\* C26: a mounted card that shows a run in progress has the timer of that run,
\* so that the run goes on to its completion.
C26_RunningCardKeepsTimer ==
    \A k \in MountedCards(currentStep, taskType, selectedModels) :
        cards[k].isTraining => cards[k].timer

\* C27: a completion leaves the completing kind with the payload of this call
\* and every other result of the aggregator as it was, whatever aggregator the
\* render of its callback saw; no step ever takes a result out.
C27_NoLostResult ==
    /\ [][\A k \in ModelType :
            (lastOp'.name = "handleTrainingCompleteMulti" /\ lastOp'.arg = k)
            => /\ k \in DOMAIN modelResults'
               /\ modelResults'[k] = ModelInfo(k, cards[k].closure)
               /\ \A j \in DOMAIN modelResults \ {k} :
                    j \in DOMAIN modelResults' /\ modelResults'[j] = modelResults[j]]_vars
    /\ [][DOMAIN modelResults \subseteq DOMAIN modelResults']_vars

\* a completion has just been recorded while the run of the other card, whose
\* callback is of a render that saw no result, is under way
C27_Witness ==
    /\ lastOp.name = "handleTrainingCompleteMulti"
    /\ lastOp.arg \in DOMAIN modelResults
    /\ \E j \in ModelType \ {lastOp.arg} :
         /\ cards[j].timer /\ cards[j].currentIteration > 0
         /\ cards[j].closure.nResults = 0

\* C28: once the aggregator holds a result, the stepper counts Evaluate as
\* completed.
C28_EvaluateCompleted ==
    DOMAIN modelResults # {} => steps("evaluate")

\* C30: the loading flag of file intake is set only while a read of the
\* mounted instance is in flight: when the read ends, with content, with empty
\* content or with an error, the flag is false.
C30_LoadingEndsWithRead ==
    fileUpload.isLoading => \E r \in BagToSet(reads) : r.live

\* C23: parseCSV returns one row for each data line, in the order of the
\* lines, and the row of line k (from 0) has id = k, whatever the header
\* names are; under a header that occurs once and is not id the row has the
\* cell of its line.
C23_ParseRowIds ==
    parseOutput.done =>
        /\ Len(parseOutput.rows) = Len(parseInput.lines)
        /\ \A k \in 1..Len(parseInput.lines) :
             /\ parseOutput.rows[k]["id"] = Num(k - 1)
             /\ \A i \in 1..Min(Len(parseInput.header), Len(parseInput.lines[k])) :
                  (/\ parseInput.header[i] # "id"
                   /\ \A j \in 1..Len(parseInput.header) :
                        parseInput.header[j] = parseInput.header[i] => j = i)
                  => parseOutput.rows[k][parseInput.header[i]]
                         = Convert(parseInput.lines[k][i])

\* the iteration count of a kind
IterationCount(k) == IF k \in {"random_forest", "xgboost"} THEN 100 ELSE 50

\* C29: a callback of a run's timer that brings the iteration counter to the
\* count of the kind (100 for random_forest and xgboost, 50 otherwise) is the
\* completion of the run: it comes from a running timer, stops it, and leaves
\* isTraining false and the progress of the card, while the card is there to
\* show it, at 100; every callback before it leaves the timer running and the
\* progress no lower than it was and below 100.
C29_CompletionAtIterationCount ==
    [][\A k \in ModelType :
         /\ (lastOp'.name = "handleTrainingCompleteMulti" /\ lastOp'.arg = k)
            => /\ cards[k].timer
               /\ cards[k].currentIteration + 1 = IterationCount(k)
               /\ ~cards'[k].timer
               /\ ~cards'[k].isTraining
               /\ k \in MountedCards(currentStep', taskType', selectedModels')
                    => cards'[k].progress = 100
         /\ (lastOp'.name = "tick" /\ lastOp'.arg = k)
            => /\ cards[k].timer /\ cards'[k].timer /\ cards'[k].isTraining
               /\ cards'[k].currentIteration = cards[k].currentIteration + 1
               /\ cards'[k].currentIteration < IterationCount(k)
               /\ cards[k].progress <= cards'[k].progress
               /\ cards'[k].progress < 100]_vars

\* the run of 50 iterations has just completed while the run of 100, started
\* earlier, is past its 50th iteration and still going
C29_Witness ==
    /\ lastOp.name = "handleTrainingCompleteMulti"
    /\ lastOp.arg = "logistic_regression"
    /\ cards["logistic_regression"].progress = 100
    /\ ~cards["logistic_regression"].isTraining
    /\ cards["random_forest"].timer
    /\ cards["random_forest"].currentIteration > 50
    /\ cards["random_forest"].progress < 100
====
